---- MODULE Spec2Model ----
(***************************************************************************)
(* Model of parse.py: process_bag reading a recorded log record by record  *)
(* and dispatching every record to the handler of its topic; the           *)
(* ImageTopicHandler turns the image records of a topic into a video       *)
(* (writer.write calls) and a sidecar table (csv rows).                    *)
(* Times are integers in nanoseconds, as in the source.                    *)
(***************************************************************************)
EXTENDS Integers, Sequences, FiniteSets, TLC

\* ------------------------------------------------------------------ bounds
MaxMsgs == 3                     \* records read from one log

\* ------------------------------------------------------- program constants
TARGET_FPS == 40
PROCESS_IMAGES == TRUE
NAV_SAT_FIX == "sensor_msgs/msg/NavSatFix"
DIAGNOSTICS == "diagnostic_msgs/msg/DiagnosticArray"
IMAGE == "sensor_msgs/msg/Image"

\* ------------------------------------------------------- inputs of the log
\* topics of the log (metadata.yaml): name -> type
topics == [camA |-> IMAGE, camB |-> IMAGE, gps |-> NAV_SAT_FIX]
TopicNames == DOMAIN topics
ImageTopics == {tp \in TopicNames : topics[tp] = IMAGE}
OtherTopics == TopicNames \ ImageTopics

\* time of the first record, and the distance between two records (ns);
\* the reader delivers records in time order, so distances are >= 0
StartTimes == {0, 1000000000}
Deltas == {0, 10000000, 25000000, 40000000, 62500000}
\* raster shapes (h, w) an image record can have
Shapes == {<<480, 640>>, <<240, 320>>}

None == -1
NoFrame == [pix |-> 0, shape |-> <<0, 0>>]
NoWriter == [exists |-> FALSE, size |-> <<0, 0>>, opened |-> FALSE]
NoHandler == [kind |-> "none"]

\* ------------------------------------------------------------------- state
VARIABLES
    handlers,   \* process_bag's dict: topic -> handler object (or NoHandler)
    feed,       \* the records read so far, in order
    clock,      \* time of the last record read
    pc,         \* process_bag: "reading", "done" (returned), "raised"
    exc         \* the exception that left process_bag, "none" otherwise

vars == <<handlers, feed, clock, pc, exc>>

\* ------------------------------------------------------ ImageTopicHandler
\* int(round(1e9 / target_fps)), round half to even
period_of(target_fps) ==
    LET q == 1000000000 \div target_fps
        r == 1000000000 % target_fps
    IN  IF 2 * r > target_fps THEN q + 1
        ELSE IF 2 * r < target_fps THEN q
        ELSE IF q % 2 = 0 THEN q ELSE q + 1

ImageTopicHandler(path, target_fps) ==
    [kind |-> "image",
     period_ns |-> period_of(target_fps),
     out_video |-> <<path, "out.mkv">>,
     out_sidecar |-> <<path, "out.csv">>,
     writer |-> NoWriter,
     frame_idx |-> 0,
     next_target_ts_ns |-> None,
     last_frame_bgr |-> NoFrame,
     video_start_ts |-> None,
     first_img_seen |-> FALSE,
     last_source_ts_ns |-> None,
     csv_header |-> <<"frame_index", "video_timestamp_ns",
                      "source_timestamp_ns", "is_repeat">>,
     target_fps |-> target_fps,
     \* what went through the two outputs of this handler
     video |-> <<>>,        \* frames handed to writer.write, in order
     csv |-> <<>>,          \* rows handed to csv_w.writerow, in order
     released |-> 0,        \* writer.release() calls
     csv_closed |-> 0]      \* csv_f.close() calls

Ok(h) == [h |-> h, exc |-> "none"]
Raise(h, e) == [h |-> h, exc |-> e]

\* the writer is created from the first frame only; self.writer is assigned
\* before isOpened() is tested
init_writer_if_needed(h, sample_bgr, opens) ==
    IF ~h.writer.exists
    THEN LET h1 == [h EXCEPT !.writer = [exists |-> TRUE,
                                         size |-> sample_bgr.shape,
                                         opened |-> opens]]
         IN  IF ~opens THEN Raise(h1, "RuntimeError") ELSE Ok(h1)
    ELSE Ok(h)

\* writer.write(frame): no test of the frame's shape in the handler
writer_write(h, frame) == [h EXCEPT !.video = Append(@, frame)]

\* emit_repeat that forgets frame_idx += 1
emit_repeat_no_idx(h) ==
    LET h1 == writer_write(h, h.last_frame_bgr)
    IN  [h1 EXCEPT
           !.csv = Append(@, [frame_index |-> h.frame_idx,
                              video_timestamp_ns |->
                                  h.next_target_ts_ns - h.video_start_ts,
                              source_timestamp_ns |-> h.last_source_ts_ns,
                              is_repeat |-> 1]),
           !.next_target_ts_ns = @ + h.period_ns]

\* one pass of the loop body of emit_frozen_frames_until, after the writer
\* was made sure of
emit_repeat(h) ==
    LET h1 == writer_write(h, h.last_frame_bgr)
    IN  [h1 EXCEPT
           !.csv = Append(@, [frame_index |-> h.frame_idx,
                              video_timestamp_ns |->
                                  h.next_target_ts_ns - h.video_start_ts,
                              source_timestamp_ns |-> h.last_source_ts_ns,
                              is_repeat |-> 1]),
           !.frame_idx = @ + 1,
           !.next_target_ts_ns = @ + h.period_ns]

\* emit_frozen_frames_until with <= for < in the loop condition
RECURSIVE emit_frozen_frames_until_le(_, _, _)
emit_frozen_frames_until_le(h, t_img_ns, opens) ==
    IF /\ h.next_target_ts_ns # None
       /\ h.next_target_ts_ns <= t_img_ns
       /\ h.last_frame_bgr # NoFrame
    THEN LET r == init_writer_if_needed(h, h.last_frame_bgr, opens)
         IN  IF r.exc # "none" THEN r
             ELSE emit_frozen_frames_until_le(emit_repeat(r.h), t_img_ns,
                                              opens)
    ELSE Ok(h)

RECURSIVE emit_frozen_frames_until(_, _, _)
emit_frozen_frames_until(h, t_img_ns, opens) ==
    IF /\ h.next_target_ts_ns # None
       /\ h.next_target_ts_ns < t_img_ns
       /\ h.last_frame_bgr # NoFrame
    THEN LET r == init_writer_if_needed(h, h.last_frame_bgr, opens)
         IN  IF r.exc # "none" THEN r
             ELSE emit_frozen_frames_until(emit_repeat(r.h), t_img_ns, opens)
    ELSE Ok(h)

\* see_first_image without the first_img_seen test
see_first_image_always(h, t_ns) ==
    [h EXCEPT !.video_start_ts = t_ns,
              !.next_target_ts_ns = t_ns,
              !.first_img_seen = TRUE]

\* see_first_image that starts the video timeline at 0 and not at t_ns
see_first_image_epoch(h, t_ns) ==
    IF ~h.first_img_seen
    THEN [h EXCEPT !.video_start_ts = 0,
                   !.next_target_ts_ns = t_ns,
                   !.first_img_seen = TRUE]
    ELSE h

\* first-frame branch of handle_msg
see_first_image(h, t_ns) ==
    IF ~h.first_img_seen
    THEN [h EXCEPT !.video_start_ts = t_ns,
                   !.next_target_ts_ns = t_ns,
                   !.first_img_seen = TRUE]
    ELSE h

\* emit_fresh that hands the frame held before to the writer
emit_fresh_stale(h, img_bgr, t_ns) ==
    LET h1 == writer_write(h, IF h.last_frame_bgr # NoFrame
                              THEN h.last_frame_bgr ELSE img_bgr)
    IN  [h1 EXCEPT
           !.csv = Append(@, [frame_index |-> h.frame_idx,
                              video_timestamp_ns |-> t_ns - h.video_start_ts,
                              source_timestamp_ns |-> t_ns,
                              is_repeat |-> 0]),
           !.frame_idx = @ + 1]

\* the fresh frame: write, sidecar row, frame_idx
emit_fresh(h, img_bgr, t_ns) ==
    LET h1 == writer_write(h, img_bgr)
    IN  [h1 EXCEPT
           !.csv = Append(@, [frame_index |-> h.frame_idx,
                              video_timestamp_ns |-> t_ns - h.video_start_ts,
                              source_timestamp_ns |-> t_ns,
                              is_repeat |-> 0]),
           !.frame_idx = @ + 1]

\* after_fresh that places the next tick one period after the fresh frame
after_fresh_rebase(h, img_bgr, t_ns) ==
    [h EXCEPT !.next_target_ts_ns = t_ns + h.period_ns,
              !.last_frame_bgr = img_bgr,
              !.last_source_ts_ns = t_ns]

\* after_fresh that leaves next_target_ts_ns where it is
after_fresh_no_advance(h, img_bgr, t_ns) ==
    [h EXCEPT !.last_frame_bgr = img_bgr,
              !.last_source_ts_ns = t_ns]

\* what follows the fresh frame
after_fresh(h, img_bgr, t_ns) ==
    [h EXCEPT !.next_target_ts_ns = @ + h.period_ns,
              !.last_frame_bgr = img_bgr,
              !.last_source_ts_ns = t_ns]

\* ImageTopicHandler.handle_msg.  msg.decodes: imgmsg_to_cv2 / cvtColor
\* return; opens: VideoWriter.isOpened(); write_fails: writer.write throws
handle_msg(h, msg, t_ns, opens, write_fails) ==
    IF ~msg.decodes THEN Raise(h, "DecodeError")
    ELSE
    LET img_bgr == [pix |-> msg.pix, shape |-> msg.shape]
        h1 == see_first_image(h, t_ns)
        r2 == emit_frozen_frames_until(h1, t_ns, opens)
    IN  IF r2.exc # "none" THEN r2
        ELSE
        LET r3 == init_writer_if_needed(r2.h, img_bgr, opens)
        IN  IF r3.exc # "none" THEN r3
            ELSE IF write_fails THEN Raise(r3.h, "cv2.error")
            ELSE Ok(after_fresh(emit_fresh(r3.h, img_bgr, t_ns),
                                img_bgr, t_ns))

close(h) ==
    [h EXCEPT !.released = IF h.writer.exists THEN @ + 1 ELSE @,
              !.csv_closed = @ + 1]

\* --------------------------------------------------------- TopicHandlerCsv
TopicHandlerCsv(path, topic_name) ==
    [kind |-> "csv", out_csv |-> <<path, topic_name>>, rows |-> 0]

DiagnosticArrayHandler(path, topic_name) ==
    [kind |-> "diag", out_csv |-> <<path, topic_name>>, rows |-> 0]

csv_handle_msg(h, t_ns, row_ok) ==
    IF row_ok THEN Ok([h EXCEPT !.rows = @ + 1]) ELSE Raise(h, "OSError")

\* ------------------------------------------------------------ process_bag
BagPath == "bag"

Init ==
    /\ handlers = [tp \in TopicNames |-> NoHandler]
    /\ feed = <<>>
    /\ clock \in StartTimes
    /\ pc = "reading"
    /\ exc = "none"

\* the handler process_bag creates for a topic seen for the first time
new_handler(topic) ==
    IF PROCESS_IMAGES /\ topics[topic] = IMAGE
    THEN ImageTopicHandler(BagPath, TARGET_FPS)
    ELSE IF topics[topic] = DIAGNOSTICS
    THEN DiagnosticArrayHandler(BagPath, topic)
    ELSE TopicHandlerCsv(BagPath, topic)

handler_for(topic) ==
    IF handlers[topic] = NoHandler THEN new_handler(topic)
    ELSE handlers[topic]

\* one pass of the reading loop for a record of an image topic
ReadImage(topic, shape, dt, decodes, opens, write_fails) ==
    /\ pc = "reading"
    /\ Len(feed) < MaxMsgs
    /\ topics[topic] = IMAGE
    /\ LET t == clock + dt
           msg == [topic |-> topic, t |-> t, pix |-> Len(feed) + 1,
                   shape |-> shape, decodes |-> decodes]
       IN  /\ feed' = Append(feed, [topic |-> topic, t |-> t, pix |-> msg.pix])
           /\ clock' = t
           /\ IF ~PROCESS_IMAGES
              THEN UNCHANGED <<handlers, pc, exc>>
              ELSE LET r == handle_msg(handler_for(topic), msg, t,
                                       opens, write_fails)
                   IN  /\ handlers' = [handlers EXCEPT ![topic] = r.h]
                       /\ exc' = r.exc
                       /\ pc' = IF r.exc = "none" THEN "reading" ELSE "raised"

\* one pass of the reading loop for a record of another topic
ReadOther(topic, dt, row_ok) ==
    /\ pc = "reading"
    /\ Len(feed) < MaxMsgs
    /\ topics[topic] # IMAGE
    /\ LET t == clock + dt
           r == csv_handle_msg(handler_for(topic), t, row_ok)
       IN  /\ feed' = Append(feed, [topic |-> topic, t |-> t,
                                    pix |-> Len(feed) + 1])
           /\ clock' = t
           /\ handlers' = [handlers EXCEPT ![topic] = r.h]
           /\ exc' = r.exc
           /\ pc' = IF r.exc = "none" THEN "reading" ELSE "raised"

\* reader.has_next() is false: the closing loop, then return
Finish ==
    /\ pc = "reading"
    /\ handlers' = [tp \in TopicNames |->
                      IF handlers[tp].kind = "image"
                      THEN close(handlers[tp]) ELSE handlers[tp]]
    /\ pc' = "done"
    /\ UNCHANGED <<feed, clock, exc>>

Next ==
    \/ \E topic \in ImageTopics, shape \in Shapes, dt \in Deltas,
          decodes \in BOOLEAN, opens \in BOOLEAN, write_fails \in BOOLEAN :
          ReadImage(topic, shape, dt, decodes, opens, write_fails)
    \/ \E topic \in OtherTopics, dt \in Deltas, row_ok \in BOOLEAN :
          ReadOther(topic, dt, row_ok)
    \/ Finish

Spec == Init /\ [][Next]_vars

\* ================================================================ claims
period_ns == period_of(TARGET_FPS)

IsImage(tp) == handlers[tp].kind = "image"
\* the records of a topic read so far, in order
FeedOf(f, tp) == SelectSeq(f, LAMBDA m : m.topic = tp)
\* the last record read left handle_msg by an exception
LastRaised(tp) == pc = "raised" /\ feed[Len(feed)].topic = tp
\* sidecar rows of a topic in a handlers dict (none before the handler exists)
Rows(hs, tp) == IF hs[tp].kind = "image" THEN hs[tp].csv ELSE <<>>
Frames(hs, tp) == IF hs[tp].kind = "image" THEN hs[tp].video ELSE <<>>

\* C1: the frame_index values of the sidecar rows of a handler are, in row
\* order, 0, 1, ..., N-1, and frame_idx is the number of rows written.
C1_FrameIndexGapless ==
    \A tp \in ImageTopics : IsImage(tp) =>
        /\ handlers[tp].frame_idx = Len(handlers[tp].csv)
        /\ \A i \in 1..Len(handlers[tp].csv) :
              handlers[tp].csv[i].frame_index = i - 1

\* a handler that wrote a fresh frame, two repeats and a fresh frame
C1_Witness ==
    \E tp \in ImageTopics : IsImage(tp) /\
        LET rows == handlers[tp].csv IN
        /\ Len(rows) = 4
        /\ rows[2].is_repeat = 1 /\ rows[3].is_repeat = 1
        /\ rows[4].is_repeat = 0

\* C2 as stated: every row has video_timestamp_ns = frame_index * period_ns.
C2_Original ==
    \A tp \in ImageTopics : IsImage(tp) =>
        \A i \in 1..Len(handlers[tp].csv) :
            handlers[tp].csv[i].video_timestamp_ns
                = handlers[tp].csv[i].frame_index * period_ns

\* C2 amended: every repeat row has video_timestamp_ns = frame_index *
\* period_ns; a fresh row has video_timestamp_ns = its source timestamp
\* minus the source timestamp of the first row.
C2_Amended ==
    \A tp \in ImageTopics : IsImage(tp) =>
        LET rows == handlers[tp].csv IN
        \A i \in 1..Len(rows) :
            IF rows[i].is_repeat = 1
            THEN rows[i].video_timestamp_ns = rows[i].frame_index * period_ns
            ELSE rows[i].video_timestamp_ns
                    = rows[i].source_timestamp_ns - rows[1].source_timestamp_ns

\* a repeat row that follows a burst, and a fresh row off the period grid
C2_Witness ==
    \E tp \in ImageTopics : IsImage(tp) /\
        LET rows == handlers[tp].csv IN
        /\ Len(rows) >= 4
        /\ rows[2].is_repeat = 0
        /\ rows[2].video_timestamp_ns % period_ns # 0
        /\ rows[3].is_repeat = 1

\* C3: the first row of a sidecar has video_timestamp_ns = 0 and
\* is_repeat = 0, and video_timestamp_ns never decreases from one row to
\* the next (records arrive in time order).
C3_FirstZeroAndMonotone ==
    \A tp \in ImageTopics : IsImage(tp) =>
        LET rows == handlers[tp].csv IN
        /\ Len(rows) > 0 =>
              rows[1].video_timestamp_ns = 0 /\ rows[1].is_repeat = 0
        /\ \A i \in 1..(Len(rows) - 1) :
              rows[i].video_timestamp_ns <= rows[i + 1].video_timestamp_ns

\* a stream that starts at a non-zero time and has repeat and fresh rows
C3_Witness ==
    \E tp \in ImageTopics : IsImage(tp) /\
        LET rows == handlers[tp].csv IN
        /\ Len(rows) >= 3
        /\ rows[1].source_timestamp_ns > 0
        /\ \E i \in 2..Len(rows) : rows[i].is_repeat = 1
        /\ rows[Len(rows)].is_repeat = 0

\* C4: once a handler has ingested exactly two frames, at t0 and t1, its
\* rows are: the first frame at 0; one repeat of the first frame (its
\* pixels, source_timestamp_ns = t0) at k * period_ns for every k >= 1 with
\* k * period_ns < t1 - t0, in order; then one fresh row at t1 - t0 with
\* source_timestamp_ns = t1.
C4_GapFilling ==
    \A tp \in ImageTopics :
        (Len(FeedOf(feed, tp)) = 2 /\ ~LastRaised(tp)) =>
        LET f == FeedOf(feed, tp)
            t0 == f[1].t
            t1 == f[2].t
            rows == handlers[tp].csv
            video == handlers[tp].video
            n == Len(rows) - 2
        IN  /\ n >= 0
            /\ Len(video) = Len(rows)
            /\ rows[1] = [frame_index |-> 0, video_timestamp_ns |-> 0,
                          source_timestamp_ns |-> t0, is_repeat |-> 0]
            /\ video[1].pix = f[1].pix
            /\ \A k \in 1..n :
                  /\ rows[k + 1] = [frame_index |-> k,
                                    video_timestamp_ns |-> k * period_ns,
                                    source_timestamp_ns |-> t0,
                                    is_repeat |-> 1]
                  /\ video[k + 1].pix = f[1].pix
            /\ n * period_ns < t1 - t0 \/ n = 0
            /\ (n + 1) * period_ns >= t1 - t0
            /\ rows[n + 2] = [frame_index |-> n + 1,
                              video_timestamp_ns |-> t1 - t0,
                              source_timestamp_ns |-> t1, is_repeat |-> 0]
            /\ video[n + 2].pix = f[2].pix

\* two frames 2.5 periods apart: four rows, repeats at one and two periods
C4_Witness ==
    \E tp \in ImageTopics :
        /\ Len(FeedOf(feed, tp)) = 2 /\ ~LastRaised(tp)
        /\ 2 * (FeedOf(feed, tp)[2].t - FeedOf(feed, tp)[1].t) = 5 * period_ns
        /\ Len(handlers[tp].csv) = 4
        /\ handlers[tp].csv[2].video_timestamp_ns = period_ns
        /\ handlers[tp].csv[3].video_timestamp_ns = 2 * period_ns

\* C5: every completed ingest writes exactly one fresh row, the last one,
\* for the frame ingested, and only repeat rows before it; it writes no
\* repeat row at all when the frame is the first of its stream or arrives
\* less than period_ns after the frame ingested before it.
C5_IngestStep ==
    \A tp \in ImageTopics :
        (/\ Len(feed') = Len(feed) + 1
         /\ feed'[Len(feed')].topic = tp
         /\ exc' = "none") =>
        LET prev == FeedOf(feed, tp)
            m == feed'[Len(feed')]
            old == Rows(handlers, tp)
            new == Rows(handlers', tp)
            video == Frames(handlers', tp)
            burst == Len(prev) > 0 /\ m.t - prev[Len(prev)].t < period_ns
        IN  /\ Len(new) > Len(old)
            /\ SubSeq(new, 1, Len(old)) = old
            /\ new[Len(new)].is_repeat = 0
            /\ new[Len(new)].source_timestamp_ns = m.t
            /\ video[Len(new)].pix = m.pix
            /\ \A i \in (Len(old) + 1)..(Len(new) - 1) : new[i].is_repeat = 1
            /\ (Len(prev) = 0 \/ burst) => Len(new) = Len(old) + 1

C5_Burst == [][C5_IngestStep]_vars

\* three frames 10 ms apart, three fresh rows
C5_Witness ==
    \E tp \in ImageTopics :
        LET f == FeedOf(feed, tp) IN
        /\ Len(f) = 3 /\ ~LastRaised(tp)
        /\ f[2].t - f[1].t = 10000000 /\ f[3].t - f[2].t = 10000000
        /\ Len(handlers[tp].csv) = 3
        /\ \A i \in 1..3 : handlers[tp].csv[i].is_repeat = 0

\* C6 as stated: a record whose pixels do not decode is skipped and the
\* reading of the log goes on.
C6_DecodeErrorSkipped == ~(pc = "raised" /\ exc = "DecodeError")

\* C7 as stated: no frame of a shape other than the first frame's is written
\* to the video or to the sidecar.
C7_GeometryFixed ==
    \A tp \in ImageTopics : IsImage(tp) =>
        \A i \in 1..Len(handlers[tp].video) :
            handlers[tp].video[i].shape = handlers[tp].video[1].shape

\* C8 as stated: when process_bag is left, by return or by exception, the
\* sidecar of every handler was closed once and its video writer, if there
\* is one, released once.
C8_ReleasedOnEveryExit ==
    pc \in {"done", "raised"} =>
        \A tp \in ImageTopics : IsImage(tp) =>
            /\ handlers[tp].csv_closed = 1
            /\ handlers[tp].writer.exists => handlers[tp].released = 1

\* C9: a handler has handed as many frames to the video writer as rows to
\* the sidecar, frame_idx of them, and row i describes frame i: its source
\* timestamp is that of the record the pixels of frame i come from, and it
\* is a repeat exactly when frame i has the pixels of frame i-1.
C9_VideoMatchesSidecar ==
    \A tp \in ImageTopics : IsImage(tp) =>
        LET rows == handlers[tp].csv
            video == handlers[tp].video
        IN  /\ Len(video) = Len(rows)
            /\ Len(rows) = handlers[tp].frame_idx
            /\ \A i \in 1..Len(rows) :
                  /\ \E j \in 1..Len(feed) :
                        /\ feed[j].topic = tp
                        /\ feed[j].pix = video[i].pix
                        /\ feed[j].t = rows[i].source_timestamp_ns
                  /\ rows[i].is_repeat = 1
                        <=> (i > 1 /\ video[i].pix = video[i - 1].pix)

\* a completed stream with a repeat between two fresh frames
C9_Witness ==
    \E tp \in ImageTopics : IsImage(tp) /\
        /\ pc = "done"
        /\ Len(handlers[tp].video) = 3
        /\ handlers[tp].csv[2].is_repeat = 1
        /\ handlers[tp].csv[3].is_repeat = 0

\* C10 as stated: two image topics never share a video file or a sidecar.
C10_DistinctOutputs ==
    \A a, b \in ImageTopics : (a # b /\ IsImage(a) /\ IsImage(b)) =>
        /\ handlers[a].out_video # handlers[b].out_video
        /\ handlers[a].out_sidecar # handlers[b].out_sidecar

\* C11 as stated: after a completed ingest of a frame at t, the next
\* gap-fill boundary is at most two periods after t, however many frames
\* were ingested before.
C11_Rebased ==
    \A tp \in ImageTopics :
        (IsImage(tp) /\ ~LastRaised(tp)
            /\ handlers[tp].last_source_ts_ns # None) =>
        handlers[tp].next_target_ts_ns - handlers[tp].last_source_ts_ns
            <= 2 * period_ns

\* C12: once a handler has seen its first frame, next_target_ts_ns is
\* video_start_ts plus one period_ns for every frame emitted so far (rows
\* written, frame_idx), and video_start_ts is the timestamp of the first
\* record of the stream.
C12_TargetOnGrid ==
    \A tp \in ImageTopics : (IsImage(tp) /\ handlers[tp].first_img_seen) =>
        LET h == handlers[tp] IN
        /\ h.next_target_ts_ns = h.video_start_ts + h.frame_idx * period_ns
        /\ h.next_target_ts_ns = h.video_start_ts + Len(h.csv) * period_ns
        /\ h.video_start_ts = FeedOf(feed, tp)[1].t

\* a stream of three frames with a repeat among four or more emissions,
\* whose last frame is later than the first
C12_Witness ==
    \E tp \in ImageTopics : IsImage(tp) /\
        LET h == handlers[tp] IN
        /\ Len(FeedOf(feed, tp)) = 3 /\ ~LastRaised(tp)
        /\ h.frame_idx >= 4
        /\ \E i \in 1..Len(h.csv) : h.csv[i].is_repeat = 1
        /\ h.last_source_ts_ns > h.video_start_ts

\* C13 as stated: two consecutive rows of a sidecar are never more than
\* period_ns apart in video_timestamp_ns.
C13_NoGapLeft ==
    \A tp \in ImageTopics : IsImage(tp) =>
        LET rows == handlers[tp].csv IN
        \A i \in 1..(Len(rows) - 1) :
            rows[i + 1].video_timestamp_ns - rows[i].video_timestamp_ns
                <= period_ns

====
